---- MODULE Spec2Model ----
(***************************************************************************)
(* Verification model of the two debugging utilities of the repository:    *)
(*   debug/dump_topo.py   the topology dump trigger (one process per rank) *)
(*   debug/xml_to_png.py  the topology renderer and its command line       *)
(* Strings that the code slices, maps or concatenates are sequences of     *)
(* one-character strings, so that slicing and replacing are computed.      *)
(***************************************************************************)
EXTENDS Integers, Sequences, FiniteSets, TLC

VARIABLES
    \* ---- dump_topo.py ----
    cuda_available,   \* torch.cuda.is_available()
    ndev,             \* torch.cuda.device_count()
    world_size,       \* int(os.environ["WORLD_SIZE"])
    launched,         \* the ranks whose process has been started
    inherited,        \* NCCL_TOPO_DUMP_FILE as inherited from the launcher
    pc,               \* rank -> position of that process in main()
    environ,          \* rank -> os.environ["NCCL_TOPO_DUMP_FILE"] of that process
    stdout,           \* rank -> sequence of messages printed by that process
    exit_code,        \* rank -> <<>> while running, <<c>> once exited with c
    device,           \* rank -> <<>> or <<d>> once torch.cuda.set_device(d) ran
    joined,           \* ranks that called dist.init_process_group
    arrived,          \* ranks that called dist.barrier
    released,         \* ranks that called dist.destroy_process_group
    \* ---- xml_to_png.py: main / build_topology ----
    doc,              \* the parsed document: [n, parent, elem]
    stack,            \* pending calls of build_topology: [element, parent_node]
    visited,          \* the elements in the order build_topology was called on them
    body,             \* graph.body: the node and edge statements, in order
    rpc,              \* position in main(): "build", "render", "done"
    image,            \* <<>> or <<[nodes, edges]>>: what the rendered image shows
    \* ---- xml_to_png.py: format_attributes ----
    attrs,            \* the argument: a sequence of <<key, value>> (insertion order)
    rows,             \* <<>> or <<result>>
    \* ---- xml_to_png.py: command line ----
    argv,             \* sys.argv[1:], each argument a sequence of characters
    cpc,              \* position in the __main__ block
    opts,             \* getopt's result: sequence of <<opt, arg>>, not yet looped over
    input_file,       \* <<>> for None, else <<value>>
    output_file,      \* <<>> for None, else <<value>>
    usage_printed,    \* number of calls of usage()
    main_calls,       \* the calls of main(): sequence of <<input_file, output_file>>
    status            \* <<>> while running, <<c>> once exited with c

tvars == <<cuda_available, ndev, world_size, launched, inherited, pc, environ,
           stdout, exit_code, device, joined, arrived, released>>

rvars == <<doc, stack, visited, body, rpc, image>>

fvars == <<attrs, rows>>

cvars == <<argv, cpc, opts, input_file, output_file, usage_printed, main_calls, status>>

vars == <<tvars, rvars, fvars, cvars>>

\* the components of the repository are independent programs: a specification
\* of one of them leaves the state of the others at rest
TriggerIdle ==
    /\ cuda_available = FALSE /\ ndev = 0 /\ world_size = 0 /\ launched = {}
    /\ inherited = "" /\ pc = <<>> /\ environ = <<>> /\ stdout = <<>>
    /\ exit_code = <<>> /\ device = <<>> /\ joined = {} /\ arrived = {}
    /\ released = {}

RendererIdle ==
    /\ doc = <<>> /\ stack = <<>> /\ visited = <<>> /\ body = <<>>
    /\ rpc = "" /\ image = <<>>

FormatIdle == attrs = <<>> /\ rows = <<>>

CliIdle ==
    /\ argv = <<>> /\ cpc = "" /\ opts = <<>> /\ input_file = <<>>
    /\ output_file = <<>> /\ usage_printed = 0 /\ main_calls = <<>> /\ status = <<>>

(***************************************************************************)
(*                       debug/dump_topo.py                                *)
(***************************************************************************)

MaxWorldSize == 3
MaxDevices == 3

out_file == "topo.xml"
Unset == "<unset>"

Ranks == 0 .. (world_size - 1)

\* torchrun on one host gives each process LOCAL_RANK = RANK
local_rank(p) == p

MsgNoCuda == [msg |-> "CUDA is not available", ws |-> 0, nd |-> 0]
MsgWorldSize(ws, nd) == [msg |-> "Error: world size is greater than number of GPUs",
                         ws |-> ws, nd |-> nd]
MsgWritten == [msg |-> "NCCL topology written to", ws |-> 0, nd |-> 0]

InitTrigger ==
    /\ cuda_available \in BOOLEAN
    /\ ndev \in (IF cuda_available THEN 1 .. MaxDevices ELSE {0})
    /\ world_size \in 1 .. MaxWorldSize
    /\ launched \in SUBSET Ranks
    /\ inherited \in {Unset, "stale.xml"}
    /\ pc = [p \in Ranks |-> IF p \in launched THEN "main" ELSE "not_launched"]
    /\ environ = [p \in Ranks |-> inherited]
    /\ stdout = [p \in Ranks |-> <<>>]
    /\ exit_code = [p \in Ranks |-> <<>>]
    /\ device = [p \in Ranks |-> <<>>]
    /\ joined = {}
    /\ arrived = {}
    /\ released = {}
    /\ RendererIdle /\ FormatIdle /\ CliIdle

\* sys.exit(code)
Exit(p, code) ==
    /\ pc' = [pc EXCEPT ![p] = "exited"]
    /\ exit_code' = [exit_code EXCEPT ![p] = <<code>>]

\* faulty variant: every rank sets the dump destination
SetDumpFile_EveryRank(p) ==
    /\ pc[p] = "main"
    /\ environ' = [environ EXCEPT ![p] = out_file]
    /\ pc' = [pc EXCEPT ![p] = "check_cuda"]
    /\ UNCHANGED <<rvars, fvars, cvars, cuda_available, ndev, world_size, launched, inherited, stdout,
                   exit_code, device, joined, arrived, released>>

\* dump_topo.py 18-22: read RANK/LOCAL_RANK, rank 0 sets the dump destination
SetDumpFile(p) ==
    /\ pc[p] = "main"
    /\ environ' = IF p = 0 THEN [environ EXCEPT ![p] = out_file] ELSE environ
    /\ pc' = [pc EXCEPT ![p] = "check_cuda"]
    /\ UNCHANGED <<rvars, fvars, cvars, cuda_available, ndev, world_size, launched, inherited, stdout,
                   exit_code, device, joined, arrived, released>>

\* dump_topo.py 24-26
CheckCuda(p) ==
    /\ pc[p] = "check_cuda"
    /\ IF ~cuda_available
          THEN /\ stdout' = [stdout EXCEPT ![p] = Append(@, MsgNoCuda)]
               /\ Exit(p, 1)
          ELSE /\ pc' = [pc EXCEPT ![p] = "check_world_size"]
               /\ UNCHANGED <<stdout, exit_code>>
    /\ UNCHANGED <<rvars, fvars, cvars, cuda_available, ndev, world_size, launched, inherited, environ,
                   device, joined, arrived, released>>

\* faulty variant: every rank prints the error message
CheckWorldSize_EveryRankPrints(p) ==
    /\ pc[p] = "check_world_size"
    /\ IF world_size > ndev
          THEN /\ stdout' = [stdout EXCEPT ![p] = Append(@, MsgWorldSize(world_size, ndev))]
               /\ Exit(p, 1)
          ELSE /\ pc' = [pc EXCEPT ![p] = "set_device"]
               /\ UNCHANGED <<stdout, exit_code>>
    /\ UNCHANGED <<rvars, fvars, cvars, cuda_available, ndev, world_size, launched, inherited, environ,
                   device, joined, arrived, released>>

\* faulty variant: the comparison is >= instead of >
CheckWorldSize_OffByOne(p) ==
    /\ pc[p] = "check_world_size"
    /\ IF world_size >= ndev
          THEN /\ stdout' = IF p = 0
                               THEN [stdout EXCEPT ![p] = Append(@, MsgWorldSize(world_size, ndev))]
                               ELSE stdout
               /\ Exit(p, 1)
          ELSE /\ pc' = [pc EXCEPT ![p] = "set_device"]
               /\ UNCHANGED <<stdout, exit_code>>
    /\ UNCHANGED <<rvars, fvars, cvars, cuda_available, ndev, world_size, launched, inherited, environ,
                   device, joined, arrived, released>>

\* dump_topo.py 28-33
CheckWorldSize(p) ==
    /\ pc[p] = "check_world_size"
    /\ IF world_size > ndev
          THEN /\ stdout' = IF p = 0
                               THEN [stdout EXCEPT ![p] = Append(@, MsgWorldSize(world_size, ndev))]
                               ELSE stdout
               /\ Exit(p, 1)
          ELSE /\ pc' = [pc EXCEPT ![p] = "set_device"]
               /\ UNCHANGED <<stdout, exit_code>>
    /\ UNCHANGED <<rvars, fvars, cvars, cuda_available, ndev, world_size, launched, inherited, environ,
                   device, joined, arrived, released>>

\* dump_topo.py 35
SetDevice(p) ==
    /\ pc[p] = "set_device"
    /\ device' = [device EXCEPT ![p] = <<local_rank(p)>>]
    /\ pc' = [pc EXCEPT ![p] = "init_process_group"]
    /\ UNCHANGED <<rvars, fvars, cvars, cuda_available, ndev, world_size, launched, inherited, environ,
                   stdout, exit_code, joined, arrived, released>>

\* dump_topo.py 37: the call joins the rendezvous of WORLD_SIZE processes ...
InitProcessGroup(p) ==
    /\ pc[p] = "init_process_group"
    /\ joined' = joined \cup {p}
    /\ pc' = [pc EXCEPT ![p] = "init_wait"]
    /\ UNCHANGED <<rvars, fvars, cvars, cuda_available, ndev, world_size, launched, inherited, environ,
                   stdout, exit_code, device, arrived, released>>

\* ... and returns once all WORLD_SIZE processes have joined
InitProcessGroupReturn(p) ==
    /\ pc[p] = "init_wait"
    /\ joined = Ranks
    /\ pc' = [pc EXCEPT ![p] = "barrier"]
    /\ UNCHANGED <<rvars, fvars, cvars, cuda_available, ndev, world_size, launched, inherited, environ,
                   stdout, exit_code, device, joined, arrived, released>>

\* faulty variant: the group is released before the barrier (lines 39 and 40 swapped)
Barrier_AfterDestroy(p) ==
    /\ pc[p] = "barrier"
    /\ released' = released \cup {p}
    /\ pc' = [pc EXCEPT ![p] = "confirm"]
    /\ UNCHANGED <<rvars, fvars, cvars, cuda_available, ndev, world_size, launched, inherited, environ,
                   stdout, exit_code, device, joined, arrived>>

\* dump_topo.py 39: the process reaches the barrier ...
Barrier(p) ==
    /\ pc[p] = "barrier"
    /\ arrived' = arrived \cup {p}
    /\ pc' = [pc EXCEPT ![p] = "barrier_wait"]
    /\ UNCHANGED <<rvars, fvars, cvars, cuda_available, ndev, world_size, launched, inherited, environ,
                   stdout, exit_code, device, joined, released>>

\* ... and dist.barrier() returns once every process of the group has reached it
BarrierReturn(p) ==
    /\ pc[p] = "barrier_wait"
    /\ arrived = Ranks
    /\ pc' = [pc EXCEPT ![p] = "destroy_process_group"]
    /\ UNCHANGED <<rvars, fvars, cvars, cuda_available, ndev, world_size, launched, inherited, environ,
                   stdout, exit_code, device, joined, arrived, released>>

\* dump_topo.py 40
DestroyProcessGroup(p) ==
    /\ pc[p] = "destroy_process_group"
    /\ released' = released \cup {p}
    /\ pc' = [pc EXCEPT ![p] = "confirm"]
    /\ UNCHANGED <<rvars, fvars, cvars, cuda_available, ndev, world_size, launched, inherited, environ,
                   stdout, exit_code, device, joined, arrived>>

\* faulty variant: every rank prints the confirmation
Confirm_EveryRank(p) ==
    /\ pc[p] = "confirm"
    /\ stdout' = [stdout EXCEPT ![p] = Append(@, MsgWritten)]
    /\ Exit(p, 0)
    /\ UNCHANGED <<rvars, fvars, cvars, cuda_available, ndev, world_size, launched, inherited, environ,
                   device, joined, arrived, released>>

\* dump_topo.py 42-43, then main returns and the interpreter exits with 0
Confirm(p) ==
    /\ pc[p] = "confirm"
    /\ stdout' = IF p = 0 THEN [stdout EXCEPT ![p] = Append(@, MsgWritten)] ELSE stdout
    /\ Exit(p, 0)
    /\ UNCHANGED <<rvars, fvars, cvars, cuda_available, ndev, world_size, launched, inherited, environ,
                   device, joined, arrived, released>>

Step(p) ==
    \/ SetDumpFile(p)
    \/ CheckCuda(p)
    \/ CheckWorldSize(p)
    \/ SetDevice(p)
    \/ InitProcessGroup(p)
    \/ InitProcessGroupReturn(p)
    \/ Barrier(p)
    \/ BarrierReturn(p)
    \/ DestroyProcessGroup(p)
    \/ Confirm(p)

NextTrigger ==
    \/ \E p \in Ranks : SetDumpFile(p)
    \/ \E p \in Ranks : CheckCuda(p)
    \/ \E p \in Ranks : CheckWorldSize(p)
    \/ \E p \in Ranks : SetDevice(p)
    \/ \E p \in Ranks : InitProcessGroup(p)
    \/ \E p \in Ranks : InitProcessGroupReturn(p)
    \/ \E p \in Ranks : Barrier(p)
    \/ \E p \in Ranks : BarrierReturn(p)
    \/ \E p \in Ranks : DestroyProcessGroup(p)
    \/ \E p \in Ranks : Confirm(p)

SpecTrigger == InitTrigger /\ [][NextTrigger]_vars

\* every started process keeps being scheduled by the operating system
FairSpecTrigger ==
    SpecTrigger /\ \A p \in 0 .. (MaxWorldSize - 1) : WF_vars(p \in Ranks /\ Step(p))

\* ---- properties of the trigger ----

Exited(p, code) == pc[p] = "exited" /\ exit_code[p] = <<code>>

\* the process is past dist.barrier()
Passed(p) == pc[p] \in {"destroy_process_group", "confirm"} \/ Exited(p, 0)

Count(seq, m) == Cardinality({i \in 1 .. Len(seq) : seq[i] = m})

Mismatch == cuda_available /\ world_size > ndev

\* C3: with accelerators available and WORLD_SIZE > device count, no process
\* binds a device, joins the group or reaches the barrier, a process that has
\* exited has exit code 1, only rank 0 prints the error message (once, with
\* both numbers) and the other ranks print nothing; and every started process
\* does terminate with exit code 1.
C3_MismatchSafe ==
    Mismatch =>
        \A p \in Ranks :
            /\ pc[p] \in {"not_launched", "main", "check_cuda", "check_world_size", "exited"}
            /\ device[p] = <<>>
            /\ p \notin joined /\ p \notin arrived
            /\ pc[p] = "exited" => exit_code[p] = <<1>>
            /\ p # 0 => stdout[p] = <<>>
            /\ p = 0 => stdout[p] = IF pc[p] = "exited"
                                       THEN <<MsgWorldSize(world_size, ndev)>>
                                       ELSE <<>>

C3_AllExitOne == \A p \in launched : Exited(p, 1)

C3_Mismatch == [](C3_MismatchSafe) /\ (Mismatch ~> C3_AllExitOne)

C3_Witness ==
    /\ Mismatch /\ world_size >= 2 /\ launched = Ranks
    /\ \A p \in Ranks : Exited(p, 1)
    /\ stdout[0] # <<>>

\* C4: with accelerators available, WORLD_SIZE <= device count and all
\* WORLD_SIZE processes started and fairly scheduled, every process eventually
\* has passed the barrier, released the process group and exited with code 0.
C4_Ready == cuda_available /\ world_size <= ndev /\ launched = Ranks

C4_AllDone == \A p \in Ranks : Exited(p, 0) /\ p \in arrived /\ p \in released

C4_Completes == C4_Ready ~> C4_AllDone

C4_Witness == C4_Ready /\ world_size >= 2 /\ world_size = ndev /\ C4_AllDone

\* C5: a process is past the barrier only when every one of the WORLD_SIZE
\* processes has reached it; while some process has not been started or has
\* exited without reaching it, no process is past it.
C5_BarrierSafe ==
    /\ \A p \in Ranks : (Passed(p) \/ p \in released) => arrived = Ranks
    /\ (\E q \in Ranks : pc[q] = "not_launched" \/ Exited(q, 1))
          => \A p \in Ranks : ~Passed(p) /\ stdout[p] # <<MsgWritten>>

C5_Witness ==
    /\ world_size >= 2
    /\ \E p, q \in Ranks : Passed(p) /\ pc[q] = "barrier_wait"

\* C8: the dump destination of rank 0 is the output path once rank 0 has run
\* its first step; the dump destination of every other rank is always the
\* inherited one, on the failing paths too.
C8_OnlyRankZeroSets ==
    \A p \in Ranks :
        /\ p # 0 => environ[p] = inherited
        /\ (p = 0 /\ pc[p] \notin {"not_launched", "main"}) => environ[p] = out_file

C8_Witness ==
    /\ world_size >= 2 /\ launched = Ranks
    /\ environ[0] = out_file
    /\ \E p \in Ranks : p # 0 /\ Exited(p, 1)

\* C10: the confirmation is printed at most once, by rank 0 only, and only
\* once rank 0 is past the barrier and has released the process group; when
\* no accelerator is available or WORLD_SIZE > device count nobody prints it.
C10_Confirmation ==
    \A p \in Ranks :
        /\ Count(stdout[p], MsgWritten) <= 1
        /\ Count(stdout[p], MsgWritten) = 1 =>
              /\ p = 0
              /\ arrived = Ranks
              /\ p \in released
              /\ Exited(p, 0)
        /\ (~cuda_available \/ world_size > ndev) => Count(stdout[p], MsgWritten) = 0
        /\ (p = 0 /\ Exited(p, 0)) => Count(stdout[p], MsgWritten) = 1

C10_Witness == world_size >= 2 /\ Count(stdout[0], MsgWritten) = 1

(***************************************************************************)
(*                debug/xml_to_png.py: format_attributes                   *)
(***************************************************************************)

MaxValueLen == 32
MaxAttrs == 2

TruncLimit == 30
TruncKeep == 27
Ellipsis == <<".", ".", ".">>

\* one table row of the label: the key cell and the value cell
Row(k, v) == [key |-> k, value |-> v]

\* faulty variant: values of exactly 30 characters are truncated too
format_attributes_Boundary(a) ==
    [i \in 1 .. Len(a) |->
        LET k == a[i][1]
            v == a[i][2]
        IN  IF Len(v) >= TruncLimit
               THEN Row(k, SubSeq(v, 1, TruncKeep) \o Ellipsis)
               ELSE Row(k, v)]

\* xml_to_png.py 28-40; the joined string is kept as the sequence of its rows
\* ("" is the empty sequence: every row is a non-empty string)
format_attributes(a) ==
    IF a = <<>>
       THEN <<>>
       ELSE [i \in 1 .. Len(a) |->
                LET k == a[i][1]
                    v == a[i][2]
                IN  IF Len(v) > TruncLimit
                       THEN Row(k, SubSeq(v, 1, TruncKeep) \o Ellipsis)
                       ELSE Row(k, v)]

ValueAlphabet == <<"a", "b", "c", "d", "e", "f", "g">>

\* a value of L characters whose characters differ from their neighbours
Value(L) == [i \in 1 .. L |-> ValueAlphabet[(i % Len(ValueAlphabet)) + 1]]

Values == {Value(L) : L \in {0, 1} \cup ((TruncKeep - 1) .. MaxValueLen)}

Keys == {"busid", "class", "link_speed", "link_width"}

\* the attribute mappings of at most MaxAttrs entries, keys distinct, in every order
AttrInputs ==
    UNION {{a \in [1 .. n -> Keys \X Values] :
               \A i, j \in 1 .. n : i # j => a[i][1] # a[j][1]} : n \in 0 .. MaxAttrs}

InitFormat ==
    /\ attrs \in AttrInputs
    /\ rows = <<>>
    /\ TriggerIdle /\ RendererIdle /\ CliIdle

FormatAttributes ==
    /\ rows = <<>>
    /\ rows' = <<format_attributes(attrs)>>
    /\ UNCHANGED <<tvars, rvars, cvars, attrs>>

NextFormat == FormatAttributes

SpecFormat == InitFormat /\ [][NextFormat]_vars

MaxNodes == 3

Lowercase == <<"a", "b", "c", "d", "e", "f", "g", "h", "i", "j", "k", "l", "m",
               "n", "o", "p", "q", "r", "s", "t", "u", "v", "w", "x", "y", "z">>
Uppercase == <<"A", "B", "C", "D", "E", "F", "G", "H", "I", "J", "K", "L", "M",
               "N", "O", "P", "Q", "R", "S", "T", "U", "V", "W", "X", "Y", "Z">>

ToUpper(c) ==
    IF \E i \in 1 .. Len(Lowercase) : Lowercase[i] = c
       THEN Uppercase[CHOOSE i \in 1 .. Len(Lowercase) : Lowercase[i] = c]
       ELSE c

ToLower(c) ==
    IF \E i \in 1 .. Len(Uppercase) : Uppercase[i] = c
       THEN Lowercase[CHOOSE i \in 1 .. Len(Uppercase) : Uppercase[i] = c]
       ELSE c

\* str.upper()
upper(str) == [i \in 1 .. Len(str) |-> ToUpper(str[i])]

\* str.capitalize(): first character upper-cased, the rest lower-cased
capitalize(str) == [i \in 1 .. Len(str) |-> IF i = 1 THEN ToUpper(str[i]) ELSE ToLower(str[i])]

\* str.replace(old, new) for one-character old and new
replace(str, old, new) == [i \in 1 .. Len(str) |-> IF str[i] = old THEN new ELSE str[i]]

\* the element tags
T_graphs == <<"g", "r", "a", "p", "h", "s">>
T_graph == <<"g", "r", "a", "p", "h">>
T_channel == <<"c", "h", "a", "n", "n", "e", "l">>
T_gpu == <<"g", "p", "u">>
T_cpu == <<"c", "p", "u">>
T_pci == <<"p", "c", "i">>
T_nvlink == <<"n", "v", "l", "i", "n", "k">>
T_net == <<"n", "e", "t">>
T_nic == <<"n", "i", "c">>
T_system == <<"s", "y", "s", "t", "e", "m">>

\* xml_to_png.py 16-26 with colors.get(dev, 'white')
colors_get(dev) ==
    CASE dev = T_graphs -> "#F8F9FA"
      [] dev = T_graph -> "#E3F2FD"
      [] dev = T_channel -> "#E0F2F1"
      [] dev = T_gpu -> "#E8F5E9"
      [] dev = T_cpu -> "#F3E5F5"
      [] dev = T_pci -> "#FFEBEE"
      [] dev = T_nvlink -> "#FFF3E0"
      [] dev = T_net -> "#FFE0B2"
      [] dev = T_nic -> "#FFE0B2"
      [] OTHER -> "white"

\* xml_to_png.py 47-58: attr_map.get(dev); <<>> is None
attr_map_get(dev) ==
    CASE dev = T_cpu -> <<"numaid">>
      [] dev = T_pci -> <<"busid">>
      [] dev = T_gpu -> <<"dev">>
      [] dev = T_nvlink -> <<"target">>
      [] dev = T_net -> <<"name">>
      [] dev = T_nic -> <<"name">>
      [] dev = T_graph -> <<"id">>
      [] OTHER -> <<>>

\* Element.get(key): <<>> is None, else <<value>>
element_get(attrib, key) ==
    IF \E i \in 1 .. Len(attrib) : attrib[i][1] = key
       THEN <<attrib[CHOOSE i \in 1 .. Len(attrib) : attrib[i][1] = key][2]>>
       ELSE <<>>

\* faulty variant: the identifier is used whenever the attribute is present
\* ("is not None" instead of truthiness) and is not sanitized
identifier_Unsanitized(dev, attrib) ==
    LET attr_name == attr_map_get(dev)
    IN  IF attr_name # <<>> THEN element_get(attrib, attr_name[1]) ELSE <<>>

\* xml_to_png.py 58-63: res; <<>> stands for a falsy res (None or ""),
\* which lines 66 and 70 do not tell apart
identifier(dev, attrib) ==
    LET attr_name == attr_map_get(dev)
        res == IF attr_name # <<>> THEN element_get(attrib, attr_name[1]) ELSE <<>>
    IN  IF res # <<>> /\ res[1] # <<>>
           THEN <<replace(res[1], ":", "_")>>
           ELSE <<>>

\* xml_to_png.py 66
node_name(dev, res) == IF res # <<>> THEN dev \o <<"_">> \o res[1] ELSE dev

\* xml_to_png.py 69-71
title(dev, res) ==
    LET t == IF dev \in {T_gpu, T_cpu} THEN upper(dev) ELSE capitalize(dev)
    IN  IF res # <<>> THEN t \o <<" ">> \o res[1] ELSE t

\* xml_to_png.py 74-81
label(dev, res, attrib) ==
    LET attrs_html == format_attributes(attrib)
    IN  IF attrs_html # <<>>
           THEN [table |-> TRUE, bgcolor |-> colors_get(dev), title |-> title(dev, res),
                 rows |-> attrs_html]
           ELSE [table |-> FALSE, bgcolor |-> "", title |-> title(dev, res), rows |-> <<>>]

\* graph.node(name, label=..., fillcolor=...) appends a node statement to graph.body
NodeStmt(name, lbl, fill) ==
    [kind |-> "node", name |-> name, label |-> lbl, fillcolor |-> fill, tail |-> <<>>]

\* graph.edge(tail, head) appends an edge statement to graph.body
EdgeStmt(tl, hd) ==
    [kind |-> "edge", name |-> hd, label |-> <<>>, fillcolor |-> "", tail |-> tl]

\* the elements documents are made of
V_busid == <<"0", "0", "0", "0", ":", "0", "0", ":", "1", "f", ".", "0">>

Element(tag, attrib) == [tag |-> tag, attrib |-> attrib]

Elements ==
    { Element(T_system, <<>>),
      Element(T_channel, <<>>),
      Element(T_gpu, << <<"dev", <<"0">> >>, <<"sm", <<"9", "0">> >> >>),
      Element(T_gpu, << <<"dev", <<>> >> >>),
      Element(T_pci, << <<"busid", V_busid>>, <<"class", Value(TruncLimit + 1)>> >>),
      Element(T_cpu, << <<"arch", <<"x", "8", "6">> >> >>),
      Element(T_net, << <<"name", <<"m", "l", "x", ":", "1">> >> >>) }

\* a document of n elements, element 1 the root, parent[i] < i
Documents ==
    UNION {{[n |-> n, parent |-> par, elem |-> el] :
               par \in {f \in [1 .. n -> 0 .. (n - 1)] :
                           f[1] = 0 /\ \A i \in 2 .. n : f[i] >= 1 /\ f[i] < i},
               el \in [1 .. n -> Elements]} : n \in 1 .. MaxNodes}

RECURSIVE ChildrenFrom(_, _, _)
\* the children of element i among elements k .. n, in document order
ChildrenFrom(d, i, k) ==
    IF k > d.n THEN <<>>
    ELSE IF d.parent[k] = i THEN <<k>> \o ChildrenFrom(d, i, k + 1)
    ELSE ChildrenFrom(d, i, k + 1)

Children(d, i) == ChildrenFrom(d, i, 1)

Frame(e, parent_node) == [element |-> e, parent_node |-> parent_node]

\* xml_to_png.py 102-134: main() parses the document and calls build_topology(graph, root)
InitRenderer ==
    /\ doc \in Documents
    /\ stack = <<Frame(1, <<>>)>>
    /\ visited = <<>>
    /\ body = <<>>
    /\ rpc = "build"
    /\ image = <<>>
    /\ TriggerIdle /\ FormatIdle /\ CliIdle

\* xml_to_png.py 42-100: one call of build_topology; the recursive calls of
\* lines 99-100 are the frames pushed in document order on top of the stack
build_topology ==
    /\ rpc = "build"
    /\ stack # <<>>
    /\ LET e == Head(stack).element
           parent_node == Head(stack).parent_node
           dev == doc.elem[e].tag
           attrib == doc.elem[e].attrib
           res == identifier(dev, attrib)
           name == node_name(dev, res)
           ch == Children(doc, e)
       IN  /\ body' = body
                      \o <<NodeStmt(name, label(dev, res, attrib), colors_get(dev))>>
                      \o (IF parent_node # <<>>
                             THEN <<EdgeStmt(parent_node[1], name)>>
                             ELSE <<>>)
           /\ stack' = [i \in 1 .. Len(ch) |-> Frame(ch[i], <<name>>)] \o Tail(stack)
           /\ visited' = Append(visited, e)
    /\ UNCHANGED <<tvars, fvars, cvars, doc, rpc, image>>

\* build_topology(graph, root) has returned
BuildReturn ==
    /\ rpc = "build"
    /\ stack = <<>>
    /\ rpc' = "render"
    /\ UNCHANGED <<tvars, fvars, cvars, doc, stack, visited, body, image>>

\* the drawing nodes of a graph body: statements with the same name are one node
DrawingNodes(b) == {b[i].name : i \in {j \in 1 .. Len(b) : b[j].kind = "node"}}

\* the drawing edges of a (non-strict) digraph body: one per edge statement
DrawingEdges(b) == {i \in 1 .. Len(b) : b[i].kind = "edge"}

\* xml_to_png.py 137-138: graph.render
Render ==
    /\ rpc = "render"
    /\ image' = <<[nodes |-> DrawingNodes(body),
                   edges |-> [i \in DrawingEdges(body) |-> <<body[i].tail, body[i].name>>]]>>
    /\ rpc' = "done"
    /\ UNCHANGED <<tvars, fvars, cvars, doc, stack, visited, body>>

NextRenderer ==
    \/ build_topology
    \/ BuildReturn
    \/ Render

SpecRenderer == InitRenderer /\ [][NextRenderer]_vars

\* ---- properties of the renderer ----

NodeStmts(b) == SelectSeq(b, LAMBDA st : st.kind = "node")

\* C1 (as claimed): once the document of N elements has been walked and
\* rendered, the image shows exactly N distinct drawing nodes and exactly
\* N-1 drawing edges.
C1_NodesAndEdges ==
    image # <<>> =>
        /\ Cardinality(image[1].nodes) = doc.n
        /\ Cardinality(DOMAIN image[1].edges) = doc.n - 1

\* the identifying key of a type, as the claim lists it ("" for no key)
C9_Key(tag) ==
    CASE tag = <<"c", "p", "u">> -> "numaid"
      [] tag = <<"p", "c", "i">> -> "busid"
      [] tag = <<"g", "p", "u">> -> "dev"
      [] tag = <<"n", "v", "l", "i", "n", "k">> -> "target"
      [] tag = <<"n", "e", "t">> -> "name"
      [] tag = <<"n", "i", "c">> -> "name"
      [] tag = <<"g", "r", "a", "p", "h">> -> "id"
      [] OTHER -> ""

\* the title of a type without its suffix, spelled out
C9_Title(tag) ==
    CASE tag = <<"c", "p", "u">> -> <<"C", "P", "U">>
      [] tag = <<"g", "p", "u">> -> <<"G", "P", "U">>
      [] tag = <<"p", "c", "i">> -> <<"P", "c", "i">>
      [] tag = <<"n", "e", "t">> -> <<"N", "e", "t">>
      [] tag = <<"s", "y", "s", "t", "e", "m">> -> <<"S", "y", "s", "t", "e", "m">>
      [] tag = <<"c", "h", "a", "n", "n", "e", "l">> -> <<"C", "h", "a", "n", "n", "e", "l">>
      [] OTHER -> <<"?">>

\* v with every ':' replaced by '_' and nothing else changed
C9_Sanitized(v) == [i \in 1 .. Len(v) |-> IF v[i] = ":" THEN "_" ELSE v[i]]

\* the naming rule for the i-th visited element; an identifying attribute
\* counts as present when it is on the element and, unless emptyCounts,
\* its value is not the empty string
C9_Rule(i, emptyCounts) ==
    LET el == doc.elem[visited[i]]
        st == NodeStmts(body)[i]
        key == C9_Key(el.tag)
        at == {j \in 1 .. Len(el.attrib) : el.attrib[j][1] = key}
        present == at # {} /\ (emptyCounts \/ \E j \in at : el.attrib[j][2] # <<>>)
    IN  /\ present =>
              \E j \in at :
                  LET id == C9_Sanitized(el.attrib[j][2])
                  IN  /\ st.name = el.tag \o <<"_">> \o id
                      /\ st.label.title = C9_Title(el.tag) \o <<" ">> \o id
        /\ ~present =>
              /\ st.name = el.tag
              /\ st.label.title = C9_Title(el.tag)

\* C9 (as claimed): whenever the identifying attribute is present on the
\* element, name and title carry the sanitized identifier; otherwise they
\* are the bare type and the bare title.
C9_NamingWhenPresent ==
    /\ Len(NodeStmts(body)) = Len(visited)
    /\ \A i \in 1 .. Len(visited) : C9_Rule(i, TRUE)

\* C9 (amended): the identifier is used when the identifying attribute is
\* present with a non-empty value; when it is absent or empty the name is the
\* bare type and the title has no suffix.
C9_NamingWhenNonEmpty ==
    /\ Len(NodeStmts(body)) = Len(visited)
    /\ \A i \in 1 .. Len(visited) : C9_Rule(i, FALSE)

C9_Witness ==
    /\ rpc = "done"
    /\ \E i, j, k \in 1 .. Len(visited) :
          /\ doc.elem[visited[i]].tag = T_pci
          /\ NodeStmts(body)[i].name = T_pci \o <<"_">> \o replace(V_busid, ":", "_")
          /\ doc.elem[visited[j]] = Element(T_gpu, << <<"dev", <<>> >> >>)
          /\ NodeStmts(body)[j].name = T_gpu
          /\ doc.elem[visited[k]].tag = T_cpu
          /\ NodeStmts(body)[k].label.title = <<"C", "P", "U">>

(***************************************************************************)
(*              debug/xml_to_png.py: the command line                      *)
(***************************************************************************)

MaxArgs == 4

\* xml_to_png.py 144: len(sys.argv) != 5, sys.argv[0] being the script
ExpectedArgc == 5

\* xml_to_png.py 149: "hi:o:"
shortopts == <<"h", "i", ":", "o", ":">>

GetoptError == [err |-> TRUE, opts |-> <<>>, args |-> <<>>]

\* getopt.short_has_arg: <<>> raises GetoptError, else <<whether opt takes an argument>>
short_has_arg(opt) ==
    LET hits == {i \in 1 .. Len(shortopts) : opt = shortopts[i] /\ shortopts[i] # ":"}
    IN  IF hits = {}
           THEN <<>>
           ELSE LET i == CHOOSE k \in hits : \A m \in hits : k <= m
                IN  <<i + 1 <= Len(shortopts) /\ shortopts[i + 1] = ":">>

RECURSIVE do_shorts(_, _, _)
\* getopt.do_shorts: the options of one argument "-<optstring>"
do_shorts(o, optstring, args) ==
    IF optstring = <<>>
       THEN [err |-> FALSE, opts |-> o, args |-> args]
       ELSE LET opt == Head(optstring)
                rest == Tail(optstring)
                has_arg == short_has_arg(opt)
            IN  IF has_arg = <<>> THEN GetoptError
                ELSE IF has_arg[1]
                   THEN IF rest = <<>>
                           THEN IF args = <<>>
                                   THEN GetoptError
                                   ELSE do_shorts(Append(o, << <<"-", opt>>, Head(args)>>),
                                                  <<>>, Tail(args))
                           ELSE do_shorts(Append(o, << <<"-", opt>>, rest>>), <<>>, args)
                   ELSE do_shorts(Append(o, << <<"-", opt>>, <<>> >>), rest, args)

RECURSIVE getopt_loop(_, _)
\* getopt.getopt(args, "hi:o:"): no long options are declared, so every
\* argument "--<name>" raises GetoptError
getopt_loop(o, args) ==
    IF args # <<>> /\ Len(Head(args)) >= 1 /\ Head(args)[1] = "-" /\ Head(args) # <<"-">>
       THEN IF Head(args) = <<"-", "-">>
               THEN [err |-> FALSE, opts |-> o, args |-> Tail(args)]
            ELSE IF Len(Head(args)) >= 2 /\ Head(args)[2] = "-"
               THEN GetoptError
            ELSE LET r == do_shorts(o, Tail(Head(args)), Tail(args))
                 IN  IF r.err THEN GetoptError ELSE getopt_loop(r.opts, r.args)
       ELSE [err |-> FALSE, opts |-> o, args |-> args]

getopt(args) == getopt_loop(<<>>, args)

A_i == <<"-", "i">>
A_o == <<"-", "o">>
A_h == <<"-", "h">>

Arguments ==
    { A_i, A_o, A_h,
      <<"-", "x">>,
      <<"-", "i", "f">>,
      <<"-", "h", "o">>,
      <<"-", "-">>,
      <<"-", "-", "i">>,
      <<"f">>,
      <<>> }

InitCli ==
    /\ argv \in UNION {[1 .. n -> Arguments] : n \in 0 .. MaxArgs}
    /\ cpc = "argc"
    /\ opts = <<>>
    /\ input_file = <<>>
    /\ output_file = <<>>
    /\ usage_printed = 0
    /\ main_calls = <<>>
    /\ status = <<>>
    /\ TriggerIdle /\ RendererIdle /\ FormatIdle

\* usage(); sys.exit(code)
UsageAndExit(code) ==
    /\ usage_printed' = usage_printed + 1
    /\ status' = <<code>>
    /\ cpc' = "exited"

\* xml_to_png.py 144-146
CheckArgc ==
    /\ cpc = "argc"
    /\ IF Len(argv) + 1 # ExpectedArgc
          THEN UsageAndExit(1)
          ELSE cpc' = "getopt" /\ UNCHANGED <<usage_printed, status>>
    /\ UNCHANGED <<tvars, rvars, fvars, argv, opts, input_file, output_file, main_calls>>

\* xml_to_png.py 149-151 and, when getopt raises, 168-170
Getopt ==
    /\ cpc = "getopt"
    /\ LET r == getopt(argv)
       IN  IF r.err
              THEN UsageAndExit(1) /\ UNCHANGED opts
              ELSE /\ opts' = r.opts
                   /\ cpc' = "loop"
                   /\ UNCHANGED <<usage_printed, status>>
    /\ UNCHANGED <<tvars, rvars, fvars, argv, input_file, output_file, main_calls>>

\* faulty variant: -h exits with code 1 like the other usage paths
LoopOpt_HelpExitsOne ==
    /\ cpc = "loop"
    /\ opts # <<>>
    /\ LET opt == Head(opts)[1]
           arg == Head(opts)[2]
       IN  IF opt = A_h
              THEN UsageAndExit(1) /\ UNCHANGED <<opts, input_file, output_file>>
              ELSE /\ input_file' = IF opt = A_i THEN <<arg>> ELSE input_file
                   /\ output_file' = IF opt = A_o THEN <<arg>> ELSE output_file
                   /\ opts' = Tail(opts)
                   /\ UNCHANGED <<usage_printed, status, cpc>>
    /\ UNCHANGED <<tvars, rvars, fvars, argv, main_calls>>

\* xml_to_png.py 153-160: one iteration of the loop over opts
LoopOpt ==
    /\ cpc = "loop"
    /\ opts # <<>>
    /\ LET opt == Head(opts)[1]
           arg == Head(opts)[2]
       IN  IF opt = A_h
              THEN UsageAndExit(0) /\ UNCHANGED <<opts, input_file, output_file>>
              ELSE /\ input_file' = IF opt = A_i THEN <<arg>> ELSE input_file
                   /\ output_file' = IF opt = A_o THEN <<arg>> ELSE output_file
                   /\ opts' = Tail(opts)
                   /\ UNCHANGED <<usage_printed, status, cpc>>
    /\ UNCHANGED <<tvars, rvars, fvars, argv, main_calls>>

\* a Python value is truthy: not None and not the empty string
Truthy(x) == x # <<>> /\ x[1] # <<>>

\* xml_to_png.py 162-166, the loop over opts being finished
Dispatch ==
    /\ cpc = "loop"
    /\ opts = <<>>
    /\ IF Truthy(input_file) /\ Truthy(output_file)
          THEN /\ main_calls' = Append(main_calls, <<input_file[1], output_file[1]>>)
               /\ cpc' = "main"
               /\ UNCHANGED <<usage_printed, status>>
          ELSE UsageAndExit(1) /\ UNCHANGED main_calls
    /\ UNCHANGED <<tvars, rvars, fvars, argv, opts, input_file, output_file>>

\* xml_to_png.py 102-138: main returns (exit code 0) or an exception of the
\* parser or the renderer ends the interpreter (exit code 1)
MainEnds ==
    /\ cpc = "main"
    /\ \E code \in {0, 1} : status' = <<code>>
    /\ cpc' = "exited"
    /\ UNCHANGED <<tvars, rvars, fvars, argv, opts, input_file, output_file,
                   usage_printed, main_calls>>

NextCli ==
    \/ CheckArgc
    \/ Getopt
    \/ LoopOpt
    \/ Dispatch
    \/ MainEnds

SpecCli == InitCli /\ [][NextCli]_vars

\* ---- properties of the command line ----

\* argv gives flag -<c> with a value: "-<c>" followed by another argument, or
\* "-<c><value>" in one argument
FlagWithValue(c) ==
    \E k \in 1 .. Len(argv) :
        /\ Len(argv[k]) >= 2 /\ argv[k][1] = "-" /\ argv[k][2] = c
        /\ Len(argv[k]) > 2 \/ k < Len(argv)

BothFlagsGiven == FlagWithValue("i") /\ FlagWithValue("o")

\* C6 (as claimed): main runs only when both an -i and an -o flag with values
\* were given; every run that does not reach main prints the usage text and
\* exits with code 1.
C6_UsageExitOne ==
    /\ main_calls # <<>> => BothFlagsGiven
    /\ (cpc = "exited" /\ main_calls = <<>>) => usage_printed = 1 /\ status = <<1>>

\* getopt accepts the arguments and reports a -h option
HelpParsed ==
    /\ ~getopt(argv).err
    /\ \E k \in 1 .. Len(getopt(argv).opts) : getopt(argv).opts[k][1] = <<"-", "h">>

\* C6 (amended): main runs only when both an -i and an -o flag with values
\* were given, and at most once; every run that does not reach main prints
\* the usage text once and exits with code 1, except that the exit code is 0
\* when exactly four arguments were given, getopt accepts them and reports -h.
C6_UsageExit ==
    /\ main_calls # <<>> => BothFlagsGiven /\ Len(main_calls) = 1 /\ usage_printed = 0
    /\ (cpc = "exited" /\ main_calls = <<>>) =>
          /\ usage_printed = 1
          /\ status = IF Len(argv) = 4 /\ HelpParsed THEN <<0>> ELSE <<1>>

C6_Witness ==
    /\ cpc = "exited" /\ main_calls = <<>> /\ status = <<1>>
    /\ argv = << <<"-", "i">>, <<"f">>, <<"-", "i">>, <<"f">> >>

\* C7 (as claimed): a run whose arguments include the -h flag prints the
\* usage text, exits with code 0 and does not run main.
C7_HelpExitsZero ==
    (cpc = "exited" /\ \E k \in 1 .. Len(argv) : argv[k] = <<"-", "h">>) =>
        /\ usage_printed = 1
        /\ status = <<0>>
        /\ main_calls = <<>>

====
